---- MODULE Spec2Model ----
(***************************************************************************)
(* Runtime module compiler and manifest linker of the workspace app        *)
(* (src/unnamed/part_001, lines 47-191): a virtual file tree is flattened  *)
(* (buildFs), walked for .ts/.tsx leaves (walk), every leaf is compiled    *)
(* with the process-wide esbuild instance and linked into a manifest and   *)
(* a source map (compile), one unit at a time (App).                       *)
(*                                                                         *)
(* JavaScript strings are TLA+ strings; a JavaScript object whose key      *)
(* order is observable (the flattened tree) is a sequence of entries in    *)
(* own-property order; manifests and source maps are functions from keys.  *)
(***************************************************************************)
EXTENDS Integers, Sequences, FiniteSets, TLC

(***************************************************************************)
(* Bounds of the model.                                                    *)
(***************************************************************************)
MaxPasses == 2
MaxEntries == 2
MaxTop == 2

Passes == 1..MaxPasses

(***************************************************************************)
(* Strings.                                                                *)
(***************************************************************************)
Char(s, i) == SubSeq(s, i, i)

\* String.prototype.endsWith
EndsWith(s, suffix) ==
  /\ Len(s) >= Len(suffix)
  /\ SubSeq(s, Len(s) - Len(suffix) + 1, Len(s)) = suffix

StartsWith(s, prefix) ==
  /\ Len(s) >= Len(prefix)
  /\ SubSeq(s, 1, Len(prefix)) = prefix

Digits == {"0", "1", "2", "3", "4", "5", "6", "7", "8", "9"}

DigitVal(c) ==
  CASE c = "0" -> 0 [] c = "1" -> 1 [] c = "2" -> 2 [] c = "3" -> 3
    [] c = "4" -> 4 [] c = "5" -> 5 [] c = "6" -> 6 [] c = "7" -> 7
    [] c = "8" -> 8 [] c = "9" -> 9

RECURSIVE ToNum(_)
ToNum(s) ==
  IF Len(s) = 0 THEN 0
  ELSE 10 * ToNum(SubSeq(s, 1, Len(s) - 1)) + DigitVal(Char(s, Len(s)))

\* The largest array index is 2^32 - 2 = 4294967294; it is held as its
\* upper and lower five digits.
MaxArrayIndexHi == 42949
MaxArrayIndexLo == 67294

\* Upper digits and last five digits of a decimal string of up to 10 digits.
HiPart(k) == IF Len(k) <= 5 THEN 0 ELSE ToNum(SubSeq(k, 1, Len(k) - 5))

LoPart(k) == IF Len(k) <= 5 THEN ToNum(k) ELSE ToNum(SubSeq(k, Len(k) - 4, Len(k)))

\* A property key that JavaScript treats as an array index: the canonical
\* decimal form of an integer in 0 .. 2^32 - 2.  Such keys are enumerated
\* first, in ascending numeric order, before all other string keys.
IsArrayIndex(k) ==
  /\ Len(k) >= 1
  /\ Len(k) <= 10
  /\ \A i \in 1..Len(k) : Char(k, i) \in Digits
  /\ (Len(k) > 1 => Char(k, 1) # "0")
  /\ \/ HiPart(k) < MaxArrayIndexHi
     \/ HiPart(k) = MaxArrayIndexHi /\ LoPart(k) <= MaxArrayIndexLo

\* Numeric order of two array indices.
IndexLess(a, b) ==
  \/ HiPart(a) < HiPart(b)
  \/ HiPart(a) = HiPart(b) /\ LoPart(a) < LoPart(b)

(***************************************************************************)
(* Ordered objects: a sequence of entries [k, v] in own-property order.    *)
(***************************************************************************)
HasKey(obj, k) == \E i \in 1..Len(obj) : obj[i].k = k

KeyPos(obj, k) == CHOOSE i \in 1..Len(obj) : obj[i].k = k

\* Position at which a new key is created: array indices go among the
\* leading array indices in ascending order, any other key goes last.
InsertPos(obj, k) ==
  IF IsArrayIndex(k)
  THEN LET later == {i \in 1..Len(obj) :
                       \/ ~IsArrayIndex(obj[i].k)
                       \/ IndexLess(k, obj[i].k)}
       IN IF later = {} THEN Len(obj) + 1
          ELSE CHOOSE i \in later : \A j \in later : i <= j
  ELSE Len(obj) + 1

\* { ...obj, [k]: v }
ObjSet(obj, k, v) ==
  IF HasKey(obj, k)
  THEN [obj EXCEPT ![KeyPos(obj, k)] = [k |-> k, v |-> v]]
  ELSE LET p == InsertPos(obj, k)
       IN SubSeq(obj, 1, p - 1) \o <<[k |-> k, v |-> v]>>
            \o SubSeq(obj, p, Len(obj))

(***************************************************************************)
(* Virtual tree nodes (FileSystemNode) and the flattened tree (FileSystem).*)
(***************************************************************************)
File(name, content) ==
  [name |-> name, isDir |-> FALSE, content |-> content, entries |-> <<>>]

Dir(name, entries) ==
  [name |-> name, isDir |-> TRUE, content |-> "", entries |-> entries]

\* isDir(node.value)
isDir(node) == node.isDir

\* Values of the flattened tree: a content string or a nested FileSystem.
FsStr(content) == [isStr |-> TRUE, s |-> content, sub |-> <<>>]

FsObj(sub) == [isStr |-> FALSE, s |-> "", sub |-> sub]

RECURSIVE buildFsFrom(_, _)
RECURSIVE buildFs(_)
\* nodes.reduce((acc, node) => ({ ...acc, [node.name]: ... }), acc)
buildFsFrom(acc, nodes) ==
  IF nodes = <<>> THEN acc
  ELSE LET node == Head(nodes)
           v == IF isDir(node) THEN FsObj(buildFs(node.entries))
                ELSE FsStr(node.content)
       IN buildFsFrom(ObjSet(acc, node.name, v), Tail(nodes))

\* Variant: the nodes are folded from the right (reduceRight), so of two
\* entries with one name the first one stays.
buildFs_reduceRight(nodes) ==
  buildFsFrom(<<>>, [i \in 1..Len(nodes) |-> nodes[Len(nodes) + 1 - i]])

buildFs(nodes) == buildFsFrom(<<>>, nodes)

RECURSIVE walk(_, _)
RECURSIVE walkEntries(_, _)
\* Variant: only the .ts suffix is recognized.
walk_tsOnly(fs, root) ==
  IF fs.isStr
  THEN IF ~EndsWith(root, ".ts") THEN <<>>
       ELSE <<[path |-> root, content |-> fs.s]>>
  ELSE walkEntries(fs.sub, root)

\* The sequence of source units the generator yields.
walk(fs, root) ==
  IF fs.isStr
  THEN IF ~EndsWith(root, ".ts") /\ ~EndsWith(root, ".tsx") THEN <<>>
       ELSE <<[path |-> root, content |-> fs.s]>>
  ELSE walkEntries(fs.sub, root)

\* for (const [name, subdir] of Object.entries(fs)) yield* walk(subdir, ...)
walkEntries(entries, root) ==
  IF entries = <<>> THEN <<>>
  ELSE LET e == Head(entries)
       IN walk(e.v, IF root = "" THEN e.k ELSE root \o "/" \o e.k)
            \o walkEntries(Tail(entries), root)

RECURSIVE AppUnits(_)
\* The units of a pass in processing order: the two nested loops of App.
AppUnits(fs) ==
  IF fs = <<>> THEN <<>>
  ELSE LET e == Head(fs)
           us == walk(e.v, "")
       IN [i \in 1..Len(us) |->
             [blockType |-> e.k, path |-> us[i].path,
              content |-> us[i].content]]
            \o AppUnits(Tail(fs))

(***************************************************************************)
(* JavaScript values held by a manifest field: a string (name, baseUrl)    *)
(* or an object mapping block keys to modules.                             *)
(***************************************************************************)
Str(s) == [t |-> "str", s |-> s, o |-> <<>>]

Obj(o) == [t |-> "obj", s |-> "", o |-> o]

\* `${v}` of a manifest field
JsStr(v) == IF v.t = "str" THEN v.s ELSE "[object Object]"

\* { ...m[k] }: undefined spreads to nothing, a string to its characters
\* under their indices, an object to its own properties.
RECURSIVE NumStr(_)
NumStr(n) ==
  LET d == CHOOSE c \in Digits : DigitVal(c) = n % 10
  IN IF n < 10 THEN d ELSE NumStr(n \div 10) \o d

Spread(m, k) ==
  IF k \notin DOMAIN m THEN <<>>
  ELSE IF m[k].t = "obj" THEN m[k].o
  ELSE [i \in {NumStr(j - 1) : j \in 1..Len(m[k].s)} |->
          Char(m[k].s, ToNum(i) + 1)]

(***************************************************************************)
(* The toolchain: esbuild's transform followed by import() of the result.  *)
(* Source texts stand for the classes of input the toolchain tells apart.  *)
(***************************************************************************)
SrcA == "export default 1"
SrcB == "export default 2"
SrcBad == "export default ("
SrcThrows == "throw 0"

\* transform(modData, {...}) resolves unless the text is not valid tsx.
TransformOk(content) == content # SrcBad

\* import(`data:application/javascript;base64,...`) resolves unless the
\* evaluation of the module faults.
ImportOk(content) == content # SrcThrows

\* The module namespace import() resolves to; the module map is keyed by
\* the data URL, so equal code gives the same module.
importFromString(content) == "module<" \o content \o ">"

(***************************************************************************)
(* The link half of compile.                                               *)
(***************************************************************************)
currdir == "file:///app/workspace"

RECURSIVE CollapseSlashes(_)
CollapseSlashes(s) ==
  IF Len(s) < 2 THEN s
  ELSE IF Char(s, 1) = "/" /\ Char(s, 2) = "/"
       THEN CollapseSlashes(SubSeq(s, 2, Len(s)))
       ELSE Char(s, 1) \o CollapseSlashes(SubSeq(s, 2, Len(s)))

RECURSIVE JoinNonEmpty(_)
JoinNonEmpty(parts) ==
  IF parts = <<>> THEN ""
  ELSE LET rest == JoinNonEmpty(Tail(parts))
       IN IF Head(parts) = "" THEN rest
          ELSE IF rest = "" THEN Head(parts)
          ELSE Head(parts) \o "/" \o rest

\* std/path join: the non-empty segments joined by "/" and normalized
\* (runs of separators collapse; the trees of this model hold no "." or
\* ".." segment).
join(parts) ==
  IF JoinNonEmpty(parts) = "" THEN "." ELSE CollapseSlashes(JoinNonEmpty(parts))

\* Variant: the key leaves out the category.
blockKeyOf_noCategory(blockType, path, m) ==
  JsStr(m["name"]) \o "/" \o path

blockKeyOf(blockType, path, m) ==
  JsStr(m["name"]) \o "/" \o blockType \o "/" \o path

\* Variant: the manifest is not spread, the result holds the touched
\* category and the name only.
linkManifest_dropOthers(blockType, path, tsModule, m) ==
  LET blockKey == blockKeyOf(blockType, path, m)
      inner == (blockKey :> tsModule) @@ Spread(m, blockType)
  IN (blockType :> Obj(inner)) @@ [k \in {"name"} |-> m[k]]

\* Variant: the new binding is written before the spread, so a key that is
\* already bound keeps its old module.
linkManifest_firstWins(blockType, path, tsModule, m) ==
  LET blockKey == blockKeyOf(blockType, path, m)
      inner == Spread(m, blockType) @@ (blockKey :> tsModule)
  IN (blockType :> Obj(inner)) @@ m

\* { ...manifest, [blockType]: { ...manifest[blockType], [blockKey]: tsModule } }
linkManifest(blockType, path, tsModule, m) ==
  LET blockKey == blockKeyOf(blockType, path, m)
      inner == (blockKey :> tsModule) @@ Spread(m, blockType)
  IN (blockType :> Obj(inner)) @@ m

\* Variant: the source map records the compiled code in place of the
\* source text.
linkSourceMap_compiled(blockType, path, content, m, sm) ==
  LET blockKey == blockKeyOf(blockType, path, m)
      blockPath == join(<<currdir, blockType, path>>)
  IN (blockKey :> [path |-> blockPath, content |-> importFromString(content)])
       @@ sm

\* { ...sourceMap, [blockKey]: { path: blockPath, content } }
linkSourceMap(blockType, path, content, m, sm) ==
  LET blockKey == blockKeyOf(blockType, path, m)
      blockPath == join(<<currdir, blockType, path>>)
  IN (blockKey :> [path |-> blockPath, content |-> content]) @@ sm

(***************************************************************************)
(* buildSourceMap(manifest) of deco: one entry per block key of the base   *)
(* manifest, which names the file of the block and carries no content.     *)
(***************************************************************************)
NoContent == "<no content>"

BlockFields(m) == {k \in DOMAIN m : k \notin {"name", "baseUrl"} /\ m[k].t = "obj"}

BaseKeys(m) == UNION {DOMAIN m[k].o : k \in BlockFields(m)}

buildSourceMap(m) ==
  [key \in BaseKeys(m) |->
     [path |-> IF StartsWith(key, m["name"].s \o "/")
               THEN currdir \o "/"
                      \o SubSeq(key, Len(m["name"].s) + 2, Len(key))
               ELSE key,
      content |-> NoContent]]

(***************************************************************************)
(* Inputs: the fileSystem of the app state and the generated manifest.     *)
(***************************************************************************)
Lists(S, n) == UNION {[1..k -> S] : k \in 0..n}

\* Entries of one category directory.
Kids ==
  { File("b.ts", SrcA),
    File("a.ts", SrcB),
    File("a.ts", SrcBad),
    File("x.md", SrcA),
    Dir("d", <<File("a.tsx", SrcA), File("y.json", SrcB)>>),
    File("d/a.tsx", SrcB),
    Dir("10", <<File("a.ts", SrcA)>>),
    Dir("9", <<File("a.ts", SrcB)>>),
    Dir("", <<File("a.ts", SrcA)>>),
    Dir("e", <<File("a.ts", SrcThrows), File("b.ts", SrcA)>>),
    Dir("f", <<Dir("", <<File("a.ts", SrcB)>>)>>) }

\* Top-level entries.
Tops ==
  { Dir("loaders", <<File("a.ts", SrcA)>>),
    Dir("loaders", <<File("b.ts", SrcB)>>),
    Dir("actions", <<File("b.txt", SrcA)>>),
    File("a.ts", SrcA),
    Dir("2", <<File("a.ts", SrcB)>>),
    Dir("1", <<File("a.ts", SrcBad)>>),
    Dir("a", <<Dir("b", <<File("c.ts", SrcA)>>)>>),
    Dir("a/b", <<File("c.ts", SrcB)>>),
    Dir("name", <<File("a.ts", SrcA), File("b.ts", SrcB)>>),
    Dir("", <<File("a.ts", SrcB)>>) }

Trees ==
  {<<Dir("loaders", es)>> : es \in Lists(Kids, MaxEntries)}
    \cup Lists(Tops, MaxTop)

\* The trees given to concurrent passes.
ConcKids ==
  { File("b.ts", SrcA),
    File("a.ts", SrcBad),
    File("x.md", SrcB),
    Dir("1", <<File("a.tsx", SrcB)>>) }

ConcTrees == {<<Dir("loaders", es)>> : es \in Lists(ConcKids, MaxEntries)}

\* The trees of the runs checked for progress.
FairTrees ==
  { <<Dir("loaders", <<>>)>>,
    <<Dir("loaders", <<File("x.md", SrcB)>>)>>,
    <<Dir("loaders", <<File("b.ts", SrcA)>>)>>,
    <<Dir("loaders", <<File("b.ts", SrcA), Dir("1", <<File("a.tsx", SrcB)>>)>>)>>,
    <<Dir("loaders", <<File("a.ts", SrcBad), File("b.ts", SrcA)>>)>> }

BaseModule == "module<base>"

EmptyBase ==
  [name |-> Str("ns"), baseUrl |-> Str("file:///app/workspace/mod.ts"),
   loaders |-> Obj(<<>>)]

FullBase ==
  [name |-> Str("ns"), baseUrl |-> Str("file:///app/workspace/mod.ts"),
   loaders |-> Obj("ns/loaders/a.ts" :> BaseModule),
   actions |-> Obj(<<>>)]

BaseManifests == {EmptyBase, FullBase}

(***************************************************************************)
(* State.                                                                  *)
(***************************************************************************)
VARIABLES
  fileSystem,    \* State.fileSystem, the node list every pass is given
  manifest,      \* the imported base manifest object
  initState,     \* initializePromise: unloaded, pending, resolved, rejected
  initCalls,     \* number of calls of initialize
  pc,            \* where each App call stands
  fs,            \* App: const fs
  idx,           \* App: number of units the two loops have taken
  appManifest,   \* App: let appManifest
  appSourceMap,  \* App: let appSourceMap
  outcome,       \* what each App call settled with
  compiled,      \* per pass, the units whose transform was started
  links,         \* per pass, the bindings the link steps made
  waited         \* per pass, whether it reached compile before init settled

vars == <<fileSystem, manifest, initState, initCalls, pc, fs, idx,
          appManifest, appSourceMap, outcome, compiled, links, waited>>

NoOutcome ==
  [kind |-> "none", error |-> "", manifest |-> <<>>, state |-> <<>>,
   sourceMap |-> <<>>]

Returned(m, st, sm) ==
  [kind |-> "ok", error |-> "", manifest |-> m, state |-> st,
   sourceMap |-> sm]

Thrown(e) ==
  [kind |-> "error", error |-> e, manifest |-> <<>>, state |-> <<>>,
   sourceMap |-> <<>>]

InitWith(trees, bases) ==
  /\ fileSystem \in trees
  /\ manifest \in bases
  /\ initState = "unloaded"
  /\ initCalls = 0
  /\ pc = [p \in Passes |-> "idle"]
  /\ fs = [p \in Passes |-> <<>>]
  /\ idx = [p \in Passes |-> 0]
  /\ appManifest = [p \in Passes |-> <<>>]
  /\ appSourceMap = [p \in Passes |-> <<>>]
  /\ outcome = [p \in Passes |-> NoOutcome]
  /\ compiled = [p \in Passes |-> <<>>]
  /\ links = [p \in Passes |-> <<>>]
  /\ waited = [p \in Passes |-> FALSE]

\* Several App calls in one process.
Init == InitWith(ConcTrees, {FullBase})

\* Several App calls in one process, on the trees checked for progress.
InitFair == InitWith(FairTrees, {FullBase})

\* One App call, over all trees and base manifests.
InitOnePass == InitWith(Trees, BaseManifests)

(***************************************************************************)
(* Module evaluation: const initializePromise = initialize({...}).         *)
(***************************************************************************)
LoadModule ==
  /\ initState = "unloaded"
  /\ initState' = "pending"
  /\ initCalls' = initCalls + 1
  /\ UNCHANGED <<fileSystem, manifest, pc, fs, idx, appManifest,
                 appSourceMap, outcome, compiled, links, waited>>

\* esbuild finishes loading the wasm binary.
InitResolve ==
  /\ initState = "pending"
  /\ initState' = "resolved"
  /\ UNCHANGED <<fileSystem, manifest, initCalls, pc, fs, idx, appManifest,
                 appSourceMap, outcome, compiled, links, waited>>

\* esbuild fails to load the wasm binary.
InitReject ==
  /\ initState = "pending"
  /\ initState' = "rejected"
  /\ UNCHANGED <<fileSystem, manifest, initCalls, pc, fs, idx, appManifest,
                 appSourceMap, outcome, compiled, links, waited>>

(***************************************************************************)
(* App, up to its first suspension: the tree is flattened, the             *)
(* accumulators are seeded, and either there is no unit and the call       *)
(* returns, or compile is entered for the first unit and suspends on       *)
(* initializePromise.                                                      *)
(***************************************************************************)
\* Variant: the accumulators are kept at module level, so a pass that starts
\* resets them for the passes under way.
AppStart_sharedAccumulators(p) ==
  /\ initState # "unloaded"
  /\ pc[p] = "idle"
  /\ LET flat == buildFs(fileSystem)
         sm == buildSourceMap(manifest)
     IN /\ fs' = [fs EXCEPT ![p] = flat]
        /\ appManifest' = [q \in Passes |-> manifest]
        /\ appSourceMap' = [q \in Passes |-> sm]
        /\ IF AppUnits(flat) = <<>>
           THEN /\ pc' = [pc EXCEPT ![p] = "done"]
                /\ outcome' = [outcome EXCEPT ![p] = Returned(manifest, flat, sm)]
                /\ waited' = waited
           ELSE /\ pc' = [pc EXCEPT ![p] = "awaitInit"]
                /\ outcome' = outcome
                /\ waited' = [waited EXCEPT ![p] = (initState = "pending")]
  /\ UNCHANGED <<fileSystem, manifest, initState, initCalls, idx, compiled,
                 links>>

AppStart(p) ==
  /\ initState # "unloaded"
  /\ pc[p] = "idle"
  /\ LET flat == buildFs(fileSystem)
         sm == buildSourceMap(manifest)
     IN /\ fs' = [fs EXCEPT ![p] = flat]
        /\ appManifest' = [appManifest EXCEPT ![p] = manifest]
        /\ appSourceMap' = [appSourceMap EXCEPT ![p] = sm]
        /\ IF AppUnits(flat) = <<>>
           THEN /\ pc' = [pc EXCEPT ![p] = "done"]
                /\ outcome' = [outcome EXCEPT ![p] = Returned(manifest, flat, sm)]
                /\ waited' = waited
           ELSE /\ pc' = [pc EXCEPT ![p] = "awaitInit"]
                /\ outcome' = outcome
                /\ waited' = [waited EXCEPT ![p] = (initState = "pending")]
  /\ UNCHANGED <<fileSystem, manifest, initState, initCalls, idx, compiled,
                 links>>

(***************************************************************************)
(* compile resumes from `await initializePromise`: on fulfilment it calls  *)
(* transform for the current unit, on rejection the rejection propagates   *)
(* out of compile and out of App.                                          *)
(***************************************************************************)
InitError == "initialize failed"

\* Variant: compile starts the toolchain itself (await initialize({...}))
\* instead of awaiting the promise made at module evaluation.
CompileAfterInit_reinit(p) ==
  /\ pc[p] = "awaitInit"
  /\ initState \in {"resolved", "rejected"}
  /\ initCalls' = initCalls + 1
  /\ IF initState = "resolved"
     THEN /\ pc' = [pc EXCEPT ![p] = "transform"]
          /\ compiled' = [compiled EXCEPT
                            ![p] = Append(@, AppUnits(fs[p])[idx[p] + 1])]
          /\ outcome' = outcome
     ELSE /\ pc' = [pc EXCEPT ![p] = "failed"]
          /\ compiled' = compiled
          /\ outcome' = [outcome EXCEPT ![p] = Thrown(InitError)]
  /\ UNCHANGED <<fileSystem, manifest, initState, fs, idx,
                 appManifest, appSourceMap, links, waited>>

\* Variant: when the shared initialization has failed, compile starts it
\* again and waits for the new attempt.
CompileAfterInit_retry(p) ==
  /\ pc[p] = "awaitInit"
  /\ initState \in {"resolved", "rejected"}
  /\ IF initState = "resolved"
     THEN /\ pc' = [pc EXCEPT ![p] = "transform"]
          /\ compiled' = [compiled EXCEPT
                            ![p] = Append(@, AppUnits(fs[p])[idx[p] + 1])]
          /\ UNCHANGED <<initState, initCalls>>
     ELSE /\ initState' = "pending"
          /\ initCalls' = initCalls + 1
          /\ UNCHANGED <<pc, compiled>>
  /\ UNCHANGED <<fileSystem, manifest, fs, idx, outcome,
                 appManifest, appSourceMap, links, waited>>

\* Variant: App maps compile over the units and awaits them together, so the
\* transforms of all the units still to come are started at once.
CompileAfterInit_parallel(p) ==
  /\ pc[p] = "awaitInit"
  /\ initState \in {"resolved", "rejected"}
  /\ IF initState = "resolved"
     THEN /\ pc' = [pc EXCEPT ![p] = "transform"]
          /\ compiled' = [compiled EXCEPT
                            ![p] = @ \o SubSeq(AppUnits(fs[p]), idx[p] + 1,
                                               Len(AppUnits(fs[p])))]
          /\ outcome' = outcome
     ELSE /\ pc' = [pc EXCEPT ![p] = "failed"]
          /\ compiled' = compiled
          /\ outcome' = [outcome EXCEPT ![p] = Thrown(InitError)]
  /\ UNCHANGED <<fileSystem, manifest, initState, initCalls, fs, idx,
                 appManifest, appSourceMap, links, waited>>

\* Variant: compile does not await initializePromise, so it calls transform
\* whatever the state of the initialization.
CompileAfterInit_noAwait(p) ==
  /\ pc[p] = "awaitInit"
  /\ initState \in {"pending", "resolved", "rejected"}
  /\ IF initState # "rejected"
     THEN /\ pc' = [pc EXCEPT ![p] = "transform"]
          /\ compiled' = [compiled EXCEPT
                            ![p] = Append(@, AppUnits(fs[p])[idx[p] + 1])]
          /\ outcome' = outcome
     ELSE /\ pc' = [pc EXCEPT ![p] = "failed"]
          /\ compiled' = compiled
          /\ outcome' = [outcome EXCEPT ![p] = Thrown(InitError)]
  /\ UNCHANGED <<fileSystem, manifest, initState, initCalls, fs, idx,
                 appManifest, appSourceMap, links, waited>>

CompileAfterInit(p) ==
  /\ pc[p] = "awaitInit"
  /\ initState \in {"resolved", "rejected"}
  /\ IF initState = "resolved"
     THEN /\ pc' = [pc EXCEPT ![p] = "transform"]
          /\ compiled' = [compiled EXCEPT
                            ![p] = Append(@, AppUnits(fs[p])[idx[p] + 1])]
          /\ outcome' = outcome
     ELSE /\ pc' = [pc EXCEPT ![p] = "failed"]
          /\ compiled' = compiled
          /\ outcome' = [outcome EXCEPT ![p] = Thrown(InitError)]
  /\ UNCHANGED <<fileSystem, manifest, initState, initCalls, fs, idx,
                 appManifest, appSourceMap, links, waited>>

(***************************************************************************)
(* transform and import() settle.  On success compile returns the linked   *)
(* pair, App assigns it to its accumulators and either enters compile for  *)
(* the next unit or returns; on failure the rejection leaves App.          *)
(***************************************************************************)
TransformError == "transform failed"
ImportError == "import failed"

\* Variant: App catches the failure of a unit, leaves the loops and returns
\* what it has accumulated.
CompileSettle_partial(p) ==
  /\ pc[p] = "transform"
  /\ LET units == AppUnits(fs[p])
         u == units[idx[p] + 1]
     IN IF TransformOk(u.content) /\ ImportOk(u.content)
        THEN LET tsModule == importFromString(u.content)
                 newManifest ==
                   linkManifest(u.blockType, u.path, tsModule, appManifest[p])
                 newSourceMap ==
                   linkSourceMap(u.blockType, u.path, u.content,
                                 appManifest[p], appSourceMap[p])
             IN /\ appManifest' = [appManifest EXCEPT ![p] = newManifest]
                /\ appSourceMap' = [appSourceMap EXCEPT ![p] = newSourceMap]
                /\ idx' = [idx EXCEPT ![p] = @ + 1]
                /\ links' = [links EXCEPT ![p] = Append(@,
                     [key |-> blockKeyOf(u.blockType, u.path, appManifest[p]),
                      blockType |-> u.blockType,
                      path |-> u.path,
                      content |-> u.content,
                      module |-> tsModule,
                      namespace |-> appManifest[p]["name"]])]
                /\ IF idx[p] + 1 = Len(units)
                   THEN /\ pc' = [pc EXCEPT ![p] = "done"]
                        /\ outcome' = [outcome EXCEPT ![p] =
                             Returned(newManifest, fs[p], newSourceMap)]
                   ELSE /\ pc' = [pc EXCEPT ![p] = "awaitInit"]
                        /\ outcome' = outcome
        ELSE /\ pc' = [pc EXCEPT ![p] = "done"]
             /\ outcome' = [outcome EXCEPT ![p] =
                  Returned(appManifest[p], fs[p], appSourceMap[p])]
             /\ UNCHANGED <<appManifest, appSourceMap, idx, links>>
  /\ UNCHANGED <<fileSystem, manifest, initState, initCalls, fs, compiled,
                 waited>>

CompileSettle(p) ==
  /\ pc[p] = "transform"
  /\ LET units == AppUnits(fs[p])
         u == units[idx[p] + 1]
     IN IF TransformOk(u.content) /\ ImportOk(u.content)
        THEN LET tsModule == importFromString(u.content)
                 newManifest ==
                   linkManifest(u.blockType, u.path, tsModule, appManifest[p])
                 newSourceMap ==
                   linkSourceMap(u.blockType, u.path, u.content,
                                 appManifest[p], appSourceMap[p])
             IN /\ appManifest' = [appManifest EXCEPT ![p] = newManifest]
                /\ appSourceMap' = [appSourceMap EXCEPT ![p] = newSourceMap]
                /\ idx' = [idx EXCEPT ![p] = @ + 1]
                /\ links' = [links EXCEPT ![p] = Append(@,
                     [key |-> blockKeyOf(u.blockType, u.path, appManifest[p]),
                      blockType |-> u.blockType,
                      path |-> u.path,
                      content |-> u.content,
                      module |-> tsModule,
                      namespace |-> appManifest[p]["name"]])]
                /\ IF idx[p] + 1 = Len(units)
                   THEN /\ pc' = [pc EXCEPT ![p] = "done"]
                        /\ outcome' = [outcome EXCEPT ![p] =
                             Returned(newManifest, fs[p], newSourceMap)]
                   ELSE /\ pc' = [pc EXCEPT ![p] = "awaitInit"]
                        /\ outcome' = outcome
        ELSE /\ pc' = [pc EXCEPT ![p] = "failed"]
             /\ outcome' = [outcome EXCEPT ![p] =
                  Thrown(IF TransformOk(u.content) THEN ImportError
                         ELSE TransformError)]
             /\ UNCHANGED <<appManifest, appSourceMap, idx, links>>
  /\ UNCHANGED <<fileSystem, manifest, initState, initCalls, fs, compiled,
                 waited>>

Next ==
  \/ LoadModule
  \/ InitResolve
  \/ InitReject
  \/ \E p \in Passes : AppStart(p)
  \/ \E p \in Passes : CompileAfterInit(p)
  \/ \E p \in Passes : CompileSettle(p)

Spec == Init /\ [][Next]_vars

\* A settled promise runs its continuations: a compile suspended on
\* initializePromise resumes once the promise is settled.
FairSpec ==
  InitFair /\ [][Next]_vars /\ \A p \in Passes : WF_vars(CompileAfterInit(p))

NextOnePass ==
  \/ LoadModule
  \/ InitResolve
  \/ InitReject
  \/ AppStart(1)
  \/ CompileAfterInit(1)
  \/ CompileSettle(1)

SpecOnePass == InitOnePass /\ [][NextOnePass]_vars

(***************************************************************************)
(* C1: initialize is called exactly once in the process, however many App  *)
(* calls there are and however they interleave with the initialization;    *)
(* every pass that has started has that one call behind it, and every      *)
(* transform a pass starts comes after that one initialization resolved.   *)
(***************************************************************************)
C1_SingleInitialization ==
  /\ initCalls <= 1
  /\ (\E p \in Passes : pc[p] # "idle") => initCalls = 1
  /\ \A p \in Passes : compiled[p] # <<>> => initState = "resolved"

\* Two passes entered compile while the initialization was in flight and
\* both went on to transform units.
C1_Witness ==
  \E p, q \in Passes :
    /\ p # q
    /\ waited[p] /\ waited[q]
    /\ Len(compiled[p]) >= 2 /\ Len(compiled[q]) >= 1

(***************************************************************************)
(* The input tree seen without the flattening: its file leaves, each with  *)
(* the names on the way to it, in stored order.                            *)
(***************************************************************************)
RECURSIVE AllLeaves(_, _)
AllLeaves(nodes, prefix) ==
  IF nodes = <<>> THEN <<>>
  ELSE LET n == Head(nodes)
           here == IF n.isDir THEN AllLeaves(n.entries, Append(prefix, n.name))
                   ELSE <<[names |-> Append(prefix, n.name),
                           content |-> n.content]>>
       IN here \o AllLeaves(Tail(nodes), prefix)

Range(f) == {f[i] : i \in DOMAIN f}

Failing(u) == ~(TransformOk(u.content) /\ ImportOk(u.content))

(***************************************************************************)
(* C2: when the compile or link step of a unit fails the pass aborts: the  *)
(* failing unit is the last one whose transform was started, the call      *)
(* settles with the failure and hands out no manifest and no source map,   *)
(* only the units before the failing one were linked, and no step of any   *)
(* pass changes the base manifest (from which the base source map is       *)
(* derived).                                                               *)
(***************************************************************************)
C2_AbortState ==
  \A p \in Passes :
    /\ \A i \in 1..Len(compiled[p]) :
         Failing(compiled[p][i]) =>
           /\ i = Len(compiled[p])
           /\ pc[p] \in {"transform", "failed"}
           /\ Len(links[p]) = i - 1
    /\ pc[p] = "done" => \A i \in 1..Len(compiled[p]) : ~Failing(compiled[p][i])
    /\ pc[p] = "failed" =>
         /\ outcome[p].kind = "error"
         /\ outcome[p].error \in {InitError, TransformError, ImportError}
         /\ outcome[p].manifest = <<>>
         /\ outcome[p].sourceMap = <<>>
         /\ outcome[p].error # InitError =>
              /\ compiled[p] # <<>>
              /\ Failing(compiled[p][Len(compiled[p])])

\* C2: a failing unit aborts the pass in every reachable state, and no step
\* writes to the base manifest.
C2_Atomicity == [](C2_AbortState) /\ [][manifest' = manifest]_vars

\* A pass failed at a unit that had linked units before it and units after
\* it still to come.
C2_Witness ==
  \E p \in Passes :
    /\ pc[p] = "failed"
    /\ outcome[p].error \in {TransformError, ImportError}
    /\ Len(links[p]) >= 1
    /\ Len(compiled[p]) < Len(AppUnits(fs[p]))

(***************************************************************************)
(* Helpers of the statements about keys.                                   *)
(***************************************************************************)
RECURSIVE JoinSlash(_)
JoinSlash(names) ==
  IF names = <<>> THEN ""
  ELSE IF Len(names) = 1 THEN names[1]
  ELSE names[1] \o "/" \o JoinSlash(Tail(names))

RECURSIVE DropLeadingEmpty(_)
DropLeadingEmpty(names) ==
  IF names # <<>> /\ Head(names) = "" THEN DropLeadingEmpty(Tail(names))
  ELSE names

HasSlash(s) == \E i \in 1..Len(s) : Char(s, i) = "/"

HasDoubledSlash(s) ==
  \E i \in 1..(Len(s) - 1) : Char(s, i) = "/" /\ Char(s, i + 1) = "/"

\* The last link step of pass p that binds the key of step j (in the source
\* map), and the last one that binds it under the category of step j.
LastForKey(p, j) ==
  \A k \in (j + 1)..Len(links[p]) : links[p][k].key # links[p][j].key

LastForKeyInCategory(p, j) ==
  \A k \in (j + 1)..Len(links[p]) :
    ~(/\ links[p][k].key = links[p][j].key
      /\ links[p][k].blockType = links[p][j].blockType)

BoundInManifest(m, blockType, key, module) ==
  /\ blockType \in DOMAIN m
  /\ m[blockType].t = "obj"
  /\ key \in DOMAIN m[blockType].o
  /\ m[blockType].o[key] = module

(***************************************************************************)
(* C3 as stated: when two link steps of a pass bind the same key, the      *)
(* final manifest and source map hold the binding of the later step and    *)
(* the binding of the earlier step is in neither.                          *)
(***************************************************************************)
C3_AsStated ==
  \A p \in Passes :
    pc[p] = "done" =>
      \A i, j \in 1..Len(links[p]) :
        (i < j /\ links[p][i].key = links[p][j].key /\ LastForKey(p, j)) =>
          LET a == links[p][i]
              b == links[p][j]
              res == outcome[p]
          IN /\ BoundInManifest(res.manifest, b.blockType, b.key, b.module)
             /\ res.sourceMap[b.key].content = b.content
             /\ \/ a.blockType = b.blockType
                \/ ~BoundInManifest(res.manifest, a.blockType, a.key, a.module)

(***************************************************************************)
(* C3 amended: in the final result every key holds, in the source map,     *)
(* the path and content of the last step that bound it, and, in the        *)
(* manifest mapping of each category, the module of the last step that     *)
(* bound it under that category; a key of the base manifest that a unit    *)
(* binds again holds the unit's module and content.  (A binding made       *)
(* earlier under another category stays in that category's mapping.)       *)
(***************************************************************************)
C3_LastWriterWins ==
  \A p \in Passes :
    pc[p] = "done" =>
      \A j \in 1..Len(links[p]) :
        LET b == links[p][j]
            res == outcome[p]
        IN /\ LastForKey(p, j) =>
                res.sourceMap[b.key] =
                  [path |-> join(<<currdir, b.blockType, b.path>>),
                   content |-> b.content]
           /\ LastForKeyInCategory(p, j) =>
                BoundInManifest(res.manifest, b.blockType, b.key, b.module)

\* A pass ended in which two units of one category with different sources
\* bound the same key.
C3_Witness ==
  \E p \in Passes :
    /\ pc[p] = "done"
    /\ \E i, j \in 1..Len(links[p]) :
         /\ i < j
         /\ links[p][i].key = links[p][j].key
         /\ links[p][i].blockType = links[p][j].blockType
         /\ links[p][i].content # links[p][j].content

(***************************************************************************)
(* C4 as stated: every link step binds its module under                    *)
(* <namespace>/<category>/<path>, with the name of the manifest passed to  *)
(* the step, the name of the top-level entry of the unit, and the names    *)
(* below that entry joined by slashes; the key has no trailing and no      *)
(* doubled slash.                                                          *)
(***************************************************************************)
C4_AsStated ==
  \A p \in Passes :
    \A j \in 1..Len(links[p]) :
      LET l == links[p][j]
      IN /\ BoundInManifest(appManifest[p], l.blockType, l.key, l.module)
            \/ ~LastForKeyInCategory(p, j)
         /\ \E leaf \in Range(AllLeaves(fileSystem, <<>>)) :
              /\ Len(leaf.names) >= 2
              /\ leaf.content = l.content
              /\ l.key = JsStr(l.namespace) \o "/" \o leaf.names[1] \o "/"
                           \o JoinSlash(Tail(leaf.names))
         /\ ~EndsWith(l.key, "/")
         /\ ~HasDoubledSlash(l.key)

(***************************************************************************)
(* C4 amended: every link step binds its module under                      *)
(* <namespace>/<category>/<path>, where namespace is the string form of    *)
(* the name of the manifest passed to the step, category the name of the   *)
(* top-level entry of the unit, and path the names below that entry joined *)
(* by slashes with the empty names at the start of the path left out; the  *)
(* key has no trailing slash, and no doubled slash when the category and   *)
(* the names on the path are non-empty and hold no slash.                  *)
(***************************************************************************)
C4_KeyFormat ==
  \A p \in Passes :
    \A j \in 1..Len(links[p]) :
      LET l == links[p][j]
      IN /\ BoundInManifest(appManifest[p], l.blockType, l.key, l.module)
            \/ ~LastForKeyInCategory(p, j)
         /\ \E leaf \in Range(AllLeaves(fileSystem, <<>>)) :
              /\ Len(leaf.names) >= 2
              /\ leaf.content = l.content
              /\ l.key = JsStr(l.namespace) \o "/" \o leaf.names[1] \o "/"
                           \o JoinSlash(DropLeadingEmpty(Tail(leaf.names)))
              /\ (\A i \in 1..Len(leaf.names) :
                    leaf.names[i] # "" /\ ~HasSlash(leaf.names[i]))
                   => ~HasDoubledSlash(l.key)
         /\ ~EndsWith(l.key, "/")

\* The unit a.tsx in directory d of category loaders was linked under the
\* namespace ns.
C4_Witness ==
  \E p \in Passes :
    \E j \in 1..Len(links[p]) :
      /\ links[p][j].key = "ns/loaders/d/a.tsx"
      /\ links[p][j].content = SrcA
      /\ BoundInManifest(appManifest[p], "loaders", "ns/loaders/d/a.tsx",
                         importFromString(SrcA))

(***************************************************************************)
(* The leaves of the input tree that the flattening keeps: an entry is     *)
(* replaced by a later entry of the same name in the same list.            *)
(***************************************************************************)
RECURSIVE RetainedLeaves(_, _, _)
RetainedLeaves(nodes, i, prefix) ==
  IF i > Len(nodes) THEN <<>>
  ELSE LET n == nodes[i]
           replaced == \E j \in (i + 1)..Len(nodes) : nodes[j].name = n.name
           here == IF replaced THEN <<>>
                   ELSE IF n.isDir
                   THEN RetainedLeaves(n.entries, 1, Append(prefix, n.name))
                   ELSE <<[names |-> Append(prefix, n.name),
                           content |-> n.content]>>
       IN here \o RetainedLeaves(nodes, i + 1, prefix)

IsSourceName(name) == EndsWith(name, ".ts") \/ EndsWith(name, ".tsx")

LeafName(leaf) == leaf.names[Len(leaf.names)]

\* The unit a leaf below a top-level entry stands for.
UnitOfLeaf(leaf) ==
  [blockType |-> leaf.names[1],
   path |-> JoinSlash(DropLeadingEmpty(Tail(leaf.names))),
   content |-> leaf.content]

KeyOfLeaf(leaf, name) ==
  name \o "/" \o leaf.names[1] \o "/"
    \o JoinSlash(DropLeadingEmpty(Tail(leaf.names)))

\* Leaves without a recognized suffix are never compiled, get no entry and
\* raise no error.
C5_OthersSkipped ==
  \A p \in Passes :
    /\ \A i \in 1..Len(compiled[p]) : IsSourceName(compiled[p][i].path)
    /\ \A leaf \in Range(AllLeaves(fileSystem, <<>>)) :
         ~IsSourceName(LeafName(leaf)) =>
           /\ \A i \in 1..Len(compiled[p]) :
                Len(leaf.names) >= 2 => compiled[p][i] # UnitOfLeaf(leaf)
           /\ \A j \in 1..Len(links[p]) :
                Len(leaf.names) >= 2 =>
                  links[p][j].key # KeyOfLeaf(leaf, JsStr(links[p][j].namespace))
    /\ (outcome[p].kind = "error" /\ outcome[p].error # InitError) =>
         IsSourceName(compiled[p][Len(compiled[p])].path)

(***************************************************************************)
(* C5 as stated: a leaf without a recognized suffix is never compiled,     *)
(* gets no entry and raises no error, and every file leaf of the tree      *)
(* whose name ends in .ts or .tsx, at any depth, is compiled and has its   *)
(* key in the source map of a pass that succeeds.                          *)
(***************************************************************************)
C5_AsStated ==
  /\ C5_OthersSkipped
  /\ \A p \in Passes :
       pc[p] = "done" =>
         \A leaf \in Range(AllLeaves(fileSystem, <<>>)) :
           IsSourceName(LeafName(leaf)) =>
             /\ Len(leaf.names) >= 2
             /\ \E i \in 1..Len(compiled[p]) : compiled[p][i] = UnitOfLeaf(leaf)
             /\ \E j \in 1..Len(links[p]) :
                  /\ links[p][j].key = KeyOfLeaf(leaf, JsStr(links[p][j].namespace))
                  /\ links[p][j].key \in DOMAIN outcome[p].sourceMap

(***************************************************************************)
(* C5 amended: a leaf without a recognized suffix is never compiled, gets  *)
(* no entry and raises no error, at any depth; a file leaf whose name ends *)
(* in .ts or .tsx, that lies below a top-level directory entry at any      *)
(* depth and that the flattening keeps (neither it nor a directory above   *)
(* it is followed by an entry of the same name in the same list), is       *)
(* compiled and has its key in the source map of every pass that succeeds. *)
(***************************************************************************)
C5_ExtensionFilter ==
  /\ C5_OthersSkipped
  /\ \A p \in Passes :
       pc[p] = "done" =>
         \A leaf \in Range(RetainedLeaves(fileSystem, 1, <<>>)) :
           (IsSourceName(LeafName(leaf)) /\ Len(leaf.names) >= 2) =>
             /\ \E i \in 1..Len(compiled[p]) : compiled[p][i] = UnitOfLeaf(leaf)
             /\ \E j \in 1..Len(links[p]) :
                  /\ links[p][j].key = KeyOfLeaf(leaf, JsStr(links[p][j].namespace))
                  /\ links[p][j].key \in DOMAIN outcome[p].sourceMap

\* A pass succeeded on a tree that holds, two levels below its category, a
\* .tsx leaf and a leaf of another suffix.
C5_Witness ==
  \E p \in Passes :
    /\ pc[p] = "done"
    /\ \E leaf \in Range(AllLeaves(fileSystem, <<>>)) :
         Len(leaf.names) >= 3 /\ ~IsSourceName(LeafName(leaf))
    /\ \E leaf \in Range(RetainedLeaves(fileSystem, 1, <<>>)) :
         /\ Len(leaf.names) >= 3
         /\ EndsWith(LeafName(leaf), ".tsx")
         /\ \E i \in 1..Len(compiled[p]) : compiled[p][i] = UnitOfLeaf(leaf)

(***************************************************************************)
(* C6 as stated: a pass compiles its units in the order of the input       *)
(* lists: the top-level entries in list order and, below each, depth       *)
(* first with the children of every directory in list order, whatever the  *)
(* names are.                                                              *)
(***************************************************************************)
IsStoredUnit(leaf) == Len(leaf.names) >= 2 /\ IsSourceName(LeafName(leaf))

StoredOrderUnits ==
  LET leaves == SelectSeq(RetainedLeaves(fileSystem, 1, <<>>), IsStoredUnit)
  IN [i \in 1..Len(leaves) |-> UnitOfLeaf(leaves[i])]

C6_AsStated ==
  \A p \in Passes :
    /\ Len(compiled[p]) <= Len(StoredOrderUnits)
    /\ compiled[p] = SubSeq(StoredOrderUnits, 1, Len(compiled[p]))

(***************************************************************************)
(* C7: in the result of a successful pass the source map entry of every    *)
(* key the pass bound has the content of the unit that bound it last, and  *)
(* that content is the content string of a file leaf of the input tree at  *)
(* the unit's category and path.                                           *)
(***************************************************************************)
C7_ContentPreserved ==
  \A p \in Passes :
    pc[p] = "done" =>
      \A j \in 1..Len(links[p]) :
        LastForKey(p, j) =>
          LET l == links[p][j]
              entry == outcome[p].sourceMap[l.key]
          IN /\ entry.content = l.content
             /\ \E leaf \in Range(RetainedLeaves(fileSystem, 1, <<>>)) :
                  /\ Len(leaf.names) >= 2
                  /\ UnitOfLeaf(leaf) =
                       [blockType |-> l.blockType, path |-> l.path,
                        content |-> entry.content]

\* A pass succeeded after linking two units of different content.
C7_Witness ==
  \E p \in Passes :
    /\ pc[p] = "done"
    /\ \E i, j \in 1..Len(links[p]) :
         /\ links[p][i].key # links[p][j].key
         /\ links[p][i].content # links[p][j].content

(***************************************************************************)
(* C8 as stated: in the result of a successful pass every top-level        *)
(* directory of the tree is a key of the manifest, with an empty mapping   *)
(* when it holds no recognized unit and the base has no such category,     *)
(* and the source map gains entries for the recognized units only.         *)
(***************************************************************************)
LinkedCategories(p) == {links[p][j].blockType : j \in 1..Len(links[p])}

LinkedKeys(p) == {links[p][j].key : j \in 1..Len(links[p])}

C8_AsStated ==
  \A p \in Passes :
    pc[p] = "done" =>
      /\ \A i \in 1..Len(fileSystem) :
           fileSystem[i].isDir =>
             /\ fileSystem[i].name \in DOMAIN outcome[p].manifest
             /\ (/\ fileSystem[i].name \notin LinkedCategories(p)
                 /\ fileSystem[i].name \notin DOMAIN manifest)
                  => outcome[p].manifest[fileSystem[i].name] = Obj(<<>>)
      /\ DOMAIN outcome[p].sourceMap = BaseKeys(manifest) \cup LinkedKeys(p)

(***************************************************************************)
(* C8 amended: in the result of a successful pass the keys of the manifest *)
(* are those of the base manifest and the top-level entries under which a  *)
(* unit was linked; a top-level entry without a recognized unit is a key   *)
(* only if the base manifest has it, and every field of the base manifest  *)
(* under which no unit was linked is as in the base; the source map gains  *)
(* entries for the linked units only.                                      *)
(***************************************************************************)
C8_Categories ==
  \A p \in Passes :
    pc[p] = "done" =>
      /\ DOMAIN outcome[p].manifest = DOMAIN manifest \cup LinkedCategories(p)
      /\ \A c \in DOMAIN manifest \ LinkedCategories(p) :
           outcome[p].manifest[c] = manifest[c]
      /\ \A c \in LinkedCategories(p) :
           /\ outcome[p].manifest[c].t = "obj"
           /\ DOMAIN outcome[p].manifest[c].o =
                DOMAIN Spread(manifest, c)
                  \cup {links[p][j].key : j \in
                          {k \in 1..Len(links[p]) : links[p][k].blockType = c}}
      /\ DOMAIN outcome[p].sourceMap = BaseKeys(manifest) \cup LinkedKeys(p)

\* The base manifest has loaders only; the tree has a unit under loaders
\* and a text file under actions; the pass succeeded.
C8_Witness ==
  \E p \in Passes :
    /\ pc[p] = "done"
    /\ manifest = EmptyBase
    /\ fileSystem = <<Dir("loaders", <<File("a.ts", SrcA)>>),
                      Dir("actions", <<File("b.txt", SrcA)>>)>>
    /\ DOMAIN outcome[p].manifest["loaders"].o = {"ns/loaders/a.ts"}
    /\ "actions" \notin DOMAIN outcome[p].manifest
    /\ DOMAIN outcome[p].sourceMap = {"ns/loaders/a.ts"}

(***************************************************************************)
(* C9: App calls given the same fileSystem and the same base manifest,     *)
(* run one after the other or interleaved, agree: when two of them have    *)
(* returned, their source maps are equal and their manifests have the same *)
(* fields with the same keys under each, and it never happens that one     *)
(* returns a result while the other fails at a unit.                       *)
(***************************************************************************)
KeySets(m) == [c \in DOMAIN m |-> [t |-> m[c].t, keys |-> DOMAIN m[c].o]]

C9_Deterministic ==
  \A p, q \in Passes :
    /\ (outcome[p].kind = "ok" /\ outcome[q].kind = "ok") =>
         /\ outcome[p].sourceMap = outcome[q].sourceMap
         /\ KeySets(outcome[p].manifest) = KeySets(outcome[q].manifest)
    /\ ~(/\ outcome[p].kind = "ok"
         /\ outcome[q].kind = "error"
         /\ outcome[q].error # InitError)

\* Two passes that were both waiting for the initialization have both
\* returned after linking two units each.
C9_Witness ==
  \E p, q \in Passes :
    /\ p # q
    /\ waited[p] /\ waited[q]
    /\ outcome[p].kind = "ok" /\ outcome[q].kind = "ok"
    /\ Len(links[p]) >= 2 /\ Len(links[q]) >= 2

(***************************************************************************)
(* C10 as stated: once the initialization has failed, no pass that is      *)
(* under way or starts later returns a manifest.                           *)
(***************************************************************************)
C10_AsStated ==
  [][\A p \in Passes :
       (initState = "rejected" /\ pc[p] # "done") => pc'[p] # "done"]_vars

(***************************************************************************)
(* C10 amended: a failed initialization stays failed and is never run      *)
(* again, no transform of any unit runs afterwards (none has run before),  *)
(* and every pass under way or started later whose tree holds at least one *)
(* recognized unit aborts with the initialization failure and returns no   *)
(* manifest; a pass whose tree yields no unit never awaits the             *)
(* initialization and returns the base manifest.                           *)
(***************************************************************************)
C10_FailedState ==
  initState = "rejected" =>
    /\ initCalls = 1
    /\ \A p \in Passes :
         /\ compiled[p] = <<>>
         /\ pc[p] # "transform"
         /\ pc[p] = "failed" => outcome[p] = Thrown(InitError)
         /\ pc[p] = "done" =>
              /\ StoredOrderUnits = <<>>
              /\ outcome[p].manifest = manifest

\* C10 amended: the state of a failed initialization, its permanence, and
\* the abort of every pass that waits for it.
C10_InitFailurePermanent ==
  /\ [](C10_FailedState)
  /\ [][initState = "rejected" => initState' = "rejected" /\ initCalls' = initCalls]_vars
  /\ \A p \in Passes :
       (initState = "rejected" /\ pc[p] = "awaitInit") ~> (pc[p] = "failed")

\* The initialization failed while two passes were waiting for it, and one
\* of them has aborted with the failure.
C10_Witness ==
  /\ initState = "rejected"
  /\ \E p, q \in Passes :
       /\ p # q
       /\ waited[p] /\ waited[q]
       /\ pc[p] = "failed" /\ outcome[p] = Thrown(InitError)

(***************************************************************************)
(* The failure the specification expects for a unit whose text the         *)
(* toolchain rejects: a CompileError that names the path of the unit.      *)
(***************************************************************************)
CompileErrorAt(path) == "CompileError: " \o path

LastCompiled(p) == compiled[p][Len(compiled[p])]

(***************************************************************************)
(* C11: when the text of a unit is invalid for the target profile, the     *)
(* failure the pass settles with is a CompileError carrying the path of    *)
(* that unit.  compile awaits transform with no handler, and transform is  *)
(* called without a sourcefile, so what leaves App is the rejection of     *)
(* transform itself, which names no path.                                  *)
(***************************************************************************)
C11_AsStated ==
  \A p \in Passes :
    (/\ pc[p] = "failed"
     /\ compiled[p] # <<>>
     /\ ~TransformOk(LastCompiled(p).content))
      => outcome[p].error = CompileErrorAt(LastCompiled(p).path)

(***************************************************************************)
(* C17: the namespace is fixed for a whole pass: whatever the top-level    *)
(* entries of the tree are called, every link step of the pass puts the    *)
(* name of the base manifest in front of its key, and the manifest the     *)
(* pass returns has the name of the base manifest.  compile is typed to    *)
(* take a blockType other than "name" and "baseUrl", but App casts every   *)
(* top-level name to that type unchecked: a top-level directory called     *)
(* "name" makes the first link step replace manifest.name by an object,    *)
(* and the steps after it build their keys from that object.               *)
(***************************************************************************)
C17_AsStated ==
  \A p \in Passes :
    /\ \A j \in 1..Len(links[p]) :
         /\ links[p][j].namespace = manifest["name"]
         /\ StartsWith(links[p][j].key, manifest["name"].s \o "/")
    /\ pc[p] = "done" => outcome[p].manifest["name"] = manifest["name"]

(***************************************************************************)
(* The mapping a manifest holds for a category: the members of the object  *)
(* stored under that name, none when the manifest has no such field or the *)
(* field is not an object.                                                 *)
(***************************************************************************)
MappingOf(m, blockType) ==
  IF blockType \in DOMAIN m /\ m[blockType].t = "obj"
  THEN m[blockType].o
  ELSE <<>>

\* m2 is m1 with key bound to value and nothing else changed.
BindsOnly(m1, m2, key, value) ==
  /\ DOMAIN m2 = DOMAIN m1 \cup {key}
  /\ m2[key] = value
  /\ \A k \in DOMAIN m1 \ {key} : m2[k] = m1[k]

\* The link step of pass p in a step of the program: the unit just linked.
Linked(p) == Len(links'[p]) = Len(links[p]) + 1

LastLink(p) == links'[p][Len(links'[p])]

(***************************************************************************)
(* C12: a link step changes nothing but the one new binding.  The manifest *)
(* after the step has the fields of the manifest before it, every field    *)
(* but the touched category with its previous value, and the touched       *)
(* category is a mapping that holds its previous members and the new key   *)
(* bound to the module; the source map after the step is the one before    *)
(* it with the new key bound to the unit's path and content; the base      *)
(* manifest the first step was given is not changed.  It fails on a        *)
(* top-level directory called "name" (C17): the touched field held the     *)
(* string name of the manifest, and after the step it is an object with    *)
(* one member per character of the name next to the new key.               *)
(***************************************************************************)
C12_AsStated ==
  [][\A p \in Passes :
       Linked(p) =>
         LET l == LastLink(p)
             m1 == appManifest[p]
             m2 == appManifest'[p]
         IN /\ DOMAIN m2 = DOMAIN m1 \cup {l.blockType}
            /\ \A c \in DOMAIN m1 \ {l.blockType} : m2[c] = m1[c]
            /\ m2[l.blockType].t = "obj"
            /\ BindsOnly(MappingOf(m1, l.blockType),
                         m2[l.blockType].o, l.key, l.module)
            /\ BindsOnly(appSourceMap[p], appSourceMap'[p], l.key,
                         [path |-> join(<<currdir, l.blockType, l.path>>),
                          content |-> l.content])
            /\ manifest' = manifest]_vars

\* Every link step pass p has made so far is in its accumulators: the source
\* map has the key, and the manifest has it under the step's category.
Committed(p) ==
  \A j \in 1..Len(links[p]) :
    /\ links[p][j].key \in DOMAIN appSourceMap[p]
    /\ links[p][j].blockType \in DOMAIN appManifest[p]
    /\ links[p][j].key \in DOMAIN appManifest[p][links[p][j].blockType].o

C13_OneAtATime ==
  \A p \in Passes :
    /\ Len(compiled[p]) \in {Len(links[p]), Len(links[p]) + 1}
    /\ pc[p] = "transform" => Len(compiled[p]) = Len(links[p]) + 1
    /\ pc[p] \in {"awaitInit", "done"} => Len(compiled[p]) = Len(links[p])
    /\ idx[p] = Len(links[p])
    /\ \A k \in 1..Len(compiled[p]) : compiled[p][k] = AppUnits(fs[p])[k]
    /\ Committed(p)

C13_Steps ==
  \A p \in Passes :
    /\ Len(compiled'[p]) > Len(compiled[p]) =>
         /\ Len(compiled'[p]) = Len(compiled[p]) + 1
         /\ Len(links[p]) = Len(compiled[p])
         /\ links'[p] = links[p]
         /\ appManifest'[p] = appManifest[p]
         /\ appSourceMap'[p] = appSourceMap[p]
    /\ Linked(p) =>
         /\ compiled'[p] = compiled[p]
         /\ SubSeq(links'[p], 1, Len(links[p])) = links[p]
         /\ appManifest'[p] =
              linkManifest(LastLink(p).blockType, LastLink(p).path,
                           LastLink(p).module, appManifest[p])
         /\ appSourceMap'[p] =
              linkSourceMap(LastLink(p).blockType, LastLink(p).path,
                            LastLink(p).content, appManifest[p],
                            appSourceMap[p])
    /\ ~Linked(p) => /\ appManifest'[p] = appManifest[p] \/ pc[p] = "idle"
                     /\ links'[p] = links[p]

(***************************************************************************)
(* C13: within one pass at most one unit is being compiled at any time,    *)
(* and the transform of unit k+1 starts only after the link of unit k is   *)
(* in the accumulators of the pass: the units whose compile was entered    *)
(* are a prefix of the units of the tree and run at most one ahead of the  *)
(* link steps, a compile is entered only when every earlier unit is        *)
(* linked, and each snapshot of the manifest and of the source map is the  *)
(* link of one unit onto the snapshot before it.                           *)
(***************************************************************************)
C13_Sequential == [](C13_OneAtATime) /\ [][C13_Steps]_vars

\* A pass is in the transform of its second unit with the link of its first
\* in the accumulators, while the other pass is in a transform of its own.
C13_Witness ==
  \E p, q \in Passes :
    /\ p # q
    /\ pc[p] = "transform" /\ pc[q] = "transform"
    /\ Len(compiled[p]) = 2 /\ Len(links[p]) = 1
    /\ links[p][1].key \in DOMAIN appSourceMap[p]

\* A step of the program in which pass p hands a unit to transform.
TransformStarts(p) == Len(compiled'[p]) > Len(compiled[p])

(***************************************************************************)
(* C14: no transform of any unit starts before the shared initialization   *)
(* has completed successfully, in every interleaving of passes, those that *)
(* entered compile while the initialization was in flight included: every  *)
(* step that starts a transform is taken with the initialization resolved  *)
(* and leaves it resolved, and a pass that is inside a transform is in a   *)
(* process whose initialization is resolved.                               *)
(***************************************************************************)
C14_InitBeforeTransform ==
  /\ [](\A p \in Passes : pc[p] = "transform" => initState = "resolved")
  /\ [][\A p \in Passes :
          TransformStarts(p) => initState = "resolved" /\ initState' = "resolved"]_vars

\* Both passes entered compile while the initialization was in flight, and
\* one of them is in a transform.
C14_Witness ==
  \E p, q \in Passes :
    /\ p # q
    /\ waited[p] /\ waited[q]
    /\ pc[p] = "transform" /\ Len(compiled[p]) = 1
    /\ pc[q] = "awaitInit" /\ compiled[q] = <<>>

\* No pass has asked for a compile yet: every pass is either not started or
\* has a tree without a unit.
NoCompileDemand ==
  \A p \in Passes : pc[p] = "idle" \/ AppUnits(fs[p]) = <<>>

(***************************************************************************)
(* C15: the initialization is lazy: while no pass has asked for a compile  *)
(* (no pass started, or only passes whose trees hold no unit) initialize   *)
(* has not been called.  The code calls initialize in a module-level       *)
(* const, so the call is made when the module is evaluated, before App     *)
(* can be called at all.                                                   *)
(***************************************************************************)
C15_AsStated ==
  NoCompileDemand => initCalls = 0 /\ initState = "unloaded"

(***************************************************************************)
(* C16: compile calls of different passes are serialized on the shared     *)
(* toolchain: at no time are the transforms of two passes in flight at     *)
(* once.  The code holds no lock around transform: the only thing the      *)
(* passes share is initializePromise, and once it is resolved each pass    *)
(* calls transform as soon as it reaches compile.                          *)
(***************************************************************************)
C16_AsStated ==
  \A p, q \in Passes :
    (pc[p] = "transform" /\ pc[q] = "transform") => p = q

(***************************************************************************)
(* What a flattened tree holds: its files, each with the names on the way  *)
(* to it and its content, and its directories (the root included), each    *)
(* with the names of its members and their number.                         *)
(***************************************************************************)
RECURSIVE FlatLeaves(_, _)
FlatLeaves(obj, prefix) ==
  UNION {IF obj[i].v.isStr
         THEN {[names |-> Append(prefix, obj[i].k), content |-> obj[i].v.s]}
         ELSE FlatLeaves(obj[i].v.sub, Append(prefix, obj[i].k))
         : i \in 1..Len(obj)}

RECURSIVE FlatDirs(_, _)
FlatDirs(obj, prefix) ==
  {[names |-> prefix, kids |-> {obj[i].k : i \in 1..Len(obj)},
    n |-> Len(obj)]}
    \cup UNION {FlatDirs(obj[i].v.sub, Append(prefix, obj[i].k))
                : i \in {j \in 1..Len(obj) : ~obj[j].v.isStr}}

\* The directories of the input tree, every node counted.
RECURSIVE InputDirs(_, _)
InputDirs(nodes, prefix) ==
  {[names |-> prefix, kids |-> {nodes[i].name : i \in 1..Len(nodes)},
    n |-> Len(nodes)]}
    \cup UNION {InputDirs(nodes[i].entries, Append(prefix, nodes[i].name))
                : i \in {j \in 1..Len(nodes) : nodes[j].isDir}}

\* Entry i of a node list has a later entry of the same name in the list.
Replaced(nodes, i) == \E j \in (i + 1)..Len(nodes) : nodes[j].name = nodes[i].name

\* The directories of the input tree that are not replaced, each with the
\* distinct names of its entries.
RECURSIVE RetainedDirs(_, _)
RetainedDirs(nodes, prefix) ==
  LET names == {nodes[i].name : i \in 1..Len(nodes)}
  IN {[names |-> prefix, kids |-> names, n |-> Cardinality(names)]}
       \cup UNION {RetainedDirs(nodes[i].entries,
                                Append(prefix, nodes[i].name))
                   : i \in {j \in 1..Len(nodes) :
                              nodes[j].isDir /\ ~Replaced(nodes, j)}}

(***************************************************************************)
(* C18: flattening is structure-preserving: every file node of the input   *)
(* is in the flattened tree under the names of its ancestors and its own   *)
(* name with its content, every directory node is a nested structure       *)
(* holding exactly its children, and there is nothing else.                *)
(***************************************************************************)
C18_AsStated ==
  \A p \in Passes :
    pc[p] # "idle" =>
      /\ FlatLeaves(fs[p], <<>>) = Range(AllLeaves(fileSystem, <<>>))
      /\ FlatDirs(fs[p], <<>>) = InputDirs(fileSystem, <<>>)

C18_Retained ==
  \A p \in Passes :
    /\ pc[p] # "idle" =>
         /\ FlatLeaves(fs[p], <<>>) = Range(RetainedLeaves(fileSystem, 1, <<>>))
         /\ FlatDirs(fs[p], <<>>) = RetainedDirs(fileSystem, <<>>)
         /\ fileSystem = <<>> => fs[p] = <<>>
    /\ pc[p] = "done" => outcome[p].state = fs[p]

(***************************************************************************)
(* C18 (amended): flattening keeps, of the entries of one list that have   *)
(* the same name, the last one only, and is structure-preserving for the   *)
(* entries it keeps: every kept file is in the flattened tree under the    *)
(* names of its ancestors and its own name with its content, every kept    *)
(* directory is a nested structure with one member per distinct name of    *)
(* its entries, there is nothing else, an empty list gives an empty        *)
(* structure, the input is not changed, and the flattened tree is the      *)
(* state a finished pass returns.                                          *)
(***************************************************************************)
C18_Flattening == [](C18_Retained) /\ [][fileSystem' = fileSystem]_vars

\* A finished pass was given two top-level directories of one name: the state
\* it returned is the flattened tree, which holds the second one only.
C18_Witness ==
  /\ pc[1] = "done"
  /\ Len(fileSystem) = 2
  /\ Replaced(fileSystem, 1)
  /\ fileSystem[1].entries # fileSystem[2].entries
  /\ outcome[1].state = fs[1]
  /\ FlatLeaves(outcome[1].state, <<>>) =
       {[names |-> <<"loaders", "b.ts">>, content |-> SrcB]}

\* The keys of a manifest are not fewer after a step than before it, category
\* by category.
KeepsKeys(m1, m2) ==
  \A c \in BlockFields(m1) :
    /\ c \in BlockFields(m2)
    /\ DOMAIN m1[c].o \subseteq DOMAIN m2[c].o

C19_InStep ==
  \A p \in Passes :
    pc[p] # "idle" =>
      /\ BaseKeys(appManifest[p]) = DOMAIN appSourceMap[p]
      /\ LinkedKeys(p) \subseteq DOMAIN appSourceMap[p]
      /\ pc[p] = "done" =>
           BaseKeys(outcome[p].manifest) = DOMAIN outcome[p].sourceMap

C19_NoneRemoved ==
  \A p \in Passes :
    pc[p] # "idle" =>
      /\ DOMAIN appSourceMap[p] \subseteq DOMAIN appSourceMap'[p]
      /\ KeepsKeys(appManifest[p], appManifest'[p])

(***************************************************************************)
(* C19: manifest and source map stay in step throughout a pass: after      *)
(* every link step and in the result, the block keys bound in the          *)
(* categories of the manifest are the block keys bound in the source map,  *)
(* and no later step removes a key.  It fails on a top-level directory     *)
(* called "name" (C17): the step binds the key in the source map and under *)
(* manifest.name, which is the name of the manifest and no category.       *)
(***************************************************************************)
C19_AsStated == [](C19_InStep) /\ [][C19_NoneRemoved]_vars

====
